---- MODULE Spec2Model ----
(***************************************************************************)
(* BinarySymphony: the byte-to-note mapper, the waveform synthesiser, the  *)
(* batch driver and the command-line entry point, as state machines.       *)
(*                                                                         *)
(* Units.  Python floats are modelled by integers in fixed units:          *)
(*   frequency : 1/200 Hz   (NOTES holds centi-Hz; an octave shift is an    *)
(*               exact power of two, and octave 3 halves the table value)  *)
(*   duration  : milliseconds (0.5 s = 500)                                *)
(* None is the empty tuple <<>> and a present value x is <<x>>.            *)
(***************************************************************************)
EXTENDS Integers, Sequences, FiniteSets, TLC

VARIABLES
    pc,            \* position of the modelled caller
    mapper,        \* the BinaryMapper object bound by the caller: None or <<[mode, scale]>>
    ctor_args,     \* arguments of the last BinaryMapper(...) call: None or <<[mode, scale]>>
    raised,        \* exception that left the last call ("none" when it returned)
    data,          \* argument of map_bytes_to_notes
    notes,         \* value returned by map_bytes_to_notes
    wf_notes,      \* notes argument of generate_waveform
    sample_rate,   \* sample_rate argument of generate_waveform
    waveform,      \* value returned by generate_waveform
    fs,            \* the input files on disk: name -> "unreadable", "empty" or "data"
    export_fails,  \* the input files whose export raises (no encoder, disk full, ...)
    input_files,   \* process_batch argument
    output_format, \* process_batch argument
    has_callback,  \* whether a progress_callback is passed to process_batch
    results,       \* value returned by process_batch
    exports,       \* the exporter calls made, in order
    calls,         \* the progress_callback calls made, in order
    argv,          \* the command line handed to main()
    disk,          \* what the paths named on the command line hold
    exit_code,     \* exit status of the process: None while main() runs
    effects,       \* files opened, mappers constructed, outputs written by main(), in order
    summary,       \* the counters of the batch summary panel: None unless it was printed
    midi_track,    \* the messages notes_to_midi appended to the track, in order
    gui,           \* the window: the selected files, the progress bar, the log
    workers,       \* the WorkerThreads started so far, in order, each with its position
    signals        \* the signals the workers emitted that the window has not handled yet

mapper_vars == <<mapper, ctor_args, raised, data, notes>>
wave_vars == <<wf_notes, sample_rate, waveform>>
batch_in_vars == <<fs, export_fails, input_files, output_format, has_callback>>
batch_out_vars == <<results, exports, calls>>
cli_vars == <<argv, disk, exit_code, effects, summary>>
midi_vars == <<midi_track>>
gui_vars == <<gui, workers, signals>>

vars == <<pc, mapper_vars, wave_vars, batch_in_vars, batch_out_vars, cli_vars, midi_vars, gui_vars>>

None == <<>>
Some(x) == <<x>>

Min(a, b) == IF a < b THEN a ELSE b

(***************************************************************************)
(* Bounds of the model                                                     *)
(***************************************************************************)
\* longest byte string handed to map_bytes_to_notes
MaxDataLen == 2
\* longest note list handed to generate_waveform
MaxNotes == 3
\* generate_waveform is exercised at every sample rate 1..MaxRate (and at 44100)
MaxRate == 4
\* longest input_files list handed to process_batch
MaxFiles == 3
\* most entries the directory given to --input-dir holds
MaxDirEntries == 2
\* Convert clicks that start a worker, and lines of the log
MaxWorkers == 2
MaxLog == 2

(***************************************************************************)
(* core.py: constant tables                                                *)
(***************************************************************************)
\* list(NOTES.keys()): dict insertion order
note_names == <<"C", "C#", "D", "D#", "E", "F", "F#", "G", "G#", "A", "A#", "B">>

\* NOTES, in centi-Hz
NOTES ==
    [n \in {note_names[i] : i \in 1..Len(note_names)} |->
        CASE n = "C"  -> 26163
          [] n = "C#" -> 27718
          [] n = "D"  -> 29366
          [] n = "D#" -> 31113
          [] n = "E"  -> 32963
          [] n = "F"  -> 34923
          [] n = "F#" -> 36999
          [] n = "G"  -> 39200
          [] n = "G#" -> 41530
          [] n = "A"  -> 44000
          [] n = "A#" -> 46616
          [] n = "B"  -> 49388]

ScaleNames == {"chromatic", "major", "minor", "pentatonic", "blues", "dorian", "phrygian"}

SCALES ==
    [s \in ScaleNames |->
        CASE s = "chromatic"  -> <<0, 1, 2, 3, 4, 5, 6, 7, 8, 9, 10, 11>>
          [] s = "major"      -> <<0, 2, 4, 5, 7, 9, 11>>
          [] s = "minor"      -> <<0, 2, 3, 5, 7, 8, 10>>
          [] s = "pentatonic" -> <<0, 2, 4, 7, 9>>
          [] s = "blues"      -> <<0, 3, 5, 6, 7, 10>>
          [] s = "dorian"     -> <<0, 2, 3, 5, 7, 9, 10>>
          [] s = "phrygian"   -> <<0, 1, 3, 5, 7, 8, 10>>]

\* the modes map_bytes_to_notes tells apart; any other string takes the else branch
Modes == {"melody", "rhythm", "spectrum"}

\* values a caller can pass: the constructor stores mode and scale unchecked
ModeArgs == Modes \cup {"retro"}
ScaleArgs == ScaleNames \cup {"invalid_scale", "Major"}

Bytes == 0..255

\* the formats process_batch and main() export
Formats == {"wav", "mp3", "midi", "spectrum"}
\* process_batch takes any string
FormatArgs == Formats \cup {"invalid"}
\* the scales of the mappers that run a batch
BatchScales == {"chromatic", "pentatonic"}

(***************************************************************************)
(* BinaryMapper.__init__                                                   *)
(***************************************************************************)
\* a constructor that forgets the membership test
init_raises_unchecked(mode, scale) == "none"

\* the exception __init__ leaves with ("none": it returns)
init_raises(mode, scale) ==
    IF scale \notin DOMAIN SCALES THEN "ValueError" ELSE "none"

(***************************************************************************)
(* BinaryMapper.map_bytes_to_notes                                         *)
(***************************************************************************)
\* a pitch class taken from the byte, not from the scale
frequency_of_chromatic(self, byte) ==
    LET scale_notes == SCALES[self.scale]
        note_index == byte % 12
        octave == 3 + ((byte \div Len(scale_notes)) % 6)
        note_name == note_names[note_index + 1]
    IN  NOTES[note_name] * (2 ^ (octave - 3))

\* lines 52-61: frequency of one byte, in 1/200 Hz
frequency_of(self, byte) ==
    LET scale_notes == SCALES[self.scale]
        scale_index == byte % Len(scale_notes)
        note_index == scale_notes[scale_index + 1]
        octave == 3 + ((byte \div Len(scale_notes)) % 6)
        note_name == note_names[note_index + 1]
    IN  NOTES[note_name] * (2 ^ (octave - 3))

\* rhythm without the 0.25 s base
duration_of_nobase(self, byte) ==
    IF self.mode = "melody" THEN 500
    ELSE IF self.mode = "rhythm" THEN (byte % 4) * 250
    ELSE IF self.mode = "spectrum" THEN 100
    ELSE 500

\* rhythm selected by byte // 4 instead of byte % 4
duration_of_div(self, byte) ==
    IF self.mode = "melody" THEN 500
    ELSE IF self.mode = "rhythm" THEN 250 + ((byte \div 4) % 4) * 250
    ELSE IF self.mode = "spectrum" THEN 100
    ELSE 500

\* lines 63-71: duration of one byte, in ms
duration_of(self, byte) ==
    IF self.mode = "melody" THEN 500
    ELSE IF self.mode = "rhythm" THEN 250 + (byte % 4) * 250
    ELSE IF self.mode = "spectrum" THEN 100
    ELSE 500

\* the for loop: position i (1-based here), the notes appended so far
RECURSIVE map_loop(_, _, _, _)
map_loop(self, bytes, i, acc) ==
    IF i > Len(bytes) THEN acc
    ELSE map_loop(self, bytes, i + 1,
                  Append(acc, <<frequency_of(self, bytes[i]), duration_of(self, bytes[i])>>))

\* a loop that starts one byte late
map_bytes_to_notes_late(self, bytes) == map_loop(self, bytes, 2, <<>>)

map_bytes_to_notes(self, bytes) == map_loop(self, bytes, 1, <<>>)

(***************************************************************************)
(* BinaryMapper.generate_waveform                                          *)
(* A sample is modelled by the set of notes (their positions in the list)  *)
(* whose sine segment was stored at that index: np.zeros gives {}.         *)
(***************************************************************************)
\* int(duration * sample_rate)
samples_of(duration, rate) == (duration * rate) \div 1000

RECURSIVE total_duration(_, _)
total_duration(ns, k) == IF k = 0 THEN 0 ELSE total_duration(ns, k - 1) + ns[k][2]

\* the buffer sized by truncating once, over the whole duration
count_samples_global(ns, rate, k, total_samples) ==
    (total_duration(ns, Len(ns)) * rate) \div 1000

\* lines 80-82
RECURSIVE count_samples(_, _, _, _)
count_samples(ns, rate, k, total_samples) ==
    IF k > Len(ns) THEN total_samples
    ELSE count_samples(ns, rate, k + 1, total_samples + samples_of(ns[k][2], rate))

\* lines 87-92: the slice waveform[current_sample : current_sample + samples]
\* is clipped to the buffer, as numpy clips it
RECURSIVE fill_loop(_, _, _, _, _)
fill_loop(ns, rate, k, current_sample, wf) ==
    IF k > Len(ns) THEN wf
    ELSE LET samples == samples_of(ns[k][2], rate)
             stop == Min(current_sample + samples, Len(wf))
         IN  fill_loop(ns, rate, k + 1, current_sample + samples,
                       [i \in 1..Len(wf) |->
                           IF current_sample < i /\ i <= stop
                           THEN wf[i] \cup {k} ELSE wf[i]])

generate_waveform(ns, rate) ==
    LET total_samples == count_samples(ns, rate, 1, 0)
    IN  fill_loop(ns, rate, 1, 0, [i \in 1..total_samples |-> {}])

(***************************************************************************)
(* BinaryMapper.process_batch                                              *)
(* An input file is named by its stem; an output path is the triple        *)
(* <<output_dir, stem, output_format>> of                                  *)
(* Path(output_dir) / f"{stem}_binarysymphony.{output_format}".            *)
(***************************************************************************)
FileNames == {"a", "b"}
FileKinds == {"unreadable", "empty", "data"}
OutputDir == "out"

\* f.read()
file_data(env, input_file) ==
    IF env.fs[input_file] = "empty" THEN <<>>
    ELSE IF input_file = "a" THEN <<0>>
    ELSE <<65, 255>>

\* generate_waveform's default sample_rate
default_sample_rate == 44100

\* a loop body without the "if not data" branch
process_file_noemptycheck(self, input_file, output_dir, fmt, env) ==
    LET pending == [input |-> input_file, output |-> None, status |-> "pending", error |-> None]
        output_path == <<output_dir, input_file, fmt>>
    IN  IF env.fs[input_file] = "unreadable"
        THEN [result |-> [pending EXCEPT !.status = "error", !.error = Some("IOError")],
              export |-> <<>>, notify |-> TRUE]
        ELSE LET ns == map_bytes_to_notes(self, file_data(env, input_file))
                 exporter ==
                     IF fmt = "midi" THEN "notes_to_midi"
                     ELSE IF fmt = "wav" THEN "save_wav"
                     ELSE IF fmt = "mp3" THEN "save_mp3"
                     ELSE IF fmt = "spectrum" THEN "plot_spectrogram"
                     ELSE "none"
                 export == IF exporter = "none" THEN <<>>
                           ELSE <<[exporter |-> exporter, input |-> input_file,
                                   path |-> output_path, size |-> Len(ns),
                                   raised |-> input_file \in env.export_fails]>>
             IN  IF exporter # "none" /\ input_file \in env.export_fails
                 THEN [result |-> [pending EXCEPT !.status = "error",
                                                  !.error = Some("ExportError")],
                       export |-> export, notify |-> TRUE]
                 ELSE [result |-> [pending EXCEPT !.output = Some(output_path),
                                                  !.status = "success"],
                       export |-> export, notify |-> TRUE]

\* a loop body that stores result["output"] before it exports
process_file_earlyoutput(self, input_file, output_dir, fmt, env) ==
    LET pending == [input |-> input_file, output |-> None, status |-> "pending", error |-> None]
        output_path == <<output_dir, input_file, fmt>>
    IN  IF env.fs[input_file] = "unreadable"
        THEN [result |-> [pending EXCEPT !.status = "error", !.error = Some("IOError")],
              export |-> <<>>, notify |-> TRUE]
        ELSE IF file_data(env, input_file) = <<>>
        THEN [result |-> [pending EXCEPT !.status = "error", !.error = Some("File is empty")],
              export |-> <<>>, notify |-> FALSE]
        ELSE IF fmt \in {"midi", "wav", "mp3", "spectrum"} /\ input_file \in env.export_fails
        THEN [result |-> [pending EXCEPT !.output = Some(output_path), !.status = "error",
                                         !.error = Some("ExportError")],
              export |-> <<>>, notify |-> TRUE]
        ELSE [result |-> [pending EXCEPT !.output = Some(output_path), !.status = "success"],
              export |-> <<>>, notify |-> TRUE]

\* lines 117-175, one pass of the loop body up to results.append: the record,
\* the exporter call made for the file (at most one) and whether the pass goes
\* on to the progress callback (the empty-file branch leaves by continue)
process_file(self, input_file, output_dir, fmt, env) ==
    LET pending == [input |-> input_file, output |-> None, status |-> "pending", error |-> None]
        output_path == <<output_dir, input_file, fmt>>
    IN  IF env.fs[input_file] = "unreadable"
        THEN \* open() raises: except Exception
             [result |-> [pending EXCEPT !.status = "error", !.error = Some("IOError")],
              export |-> <<>>, notify |-> TRUE]
        ELSE IF file_data(env, input_file) = <<>>
        THEN [result |-> [pending EXCEPT !.status = "error", !.error = Some("File is empty")],
              export |-> <<>>, notify |-> FALSE]
        ELSE LET ns == map_bytes_to_notes(self, file_data(env, input_file))
                 exporter ==
                     IF fmt = "midi" THEN "notes_to_midi"
                     ELSE IF fmt \in {"wav", "mp3"}
                          THEN (IF fmt = "wav" THEN "save_wav" ELSE "save_mp3")
                     ELSE IF fmt = "spectrum" THEN "plot_spectrogram"
                     ELSE "none"
                 \* what the exporter is handed: the notes, or a waveform of this many samples
                 size == IF fmt = "midi" THEN Len(ns)
                         ELSE count_samples(ns, default_sample_rate, 1, 0)
                 export == IF exporter = "none" THEN <<>>
                           ELSE <<[exporter |-> exporter, input |-> input_file,
                                   path |-> output_path, size |-> size,
                                   raised |-> input_file \in env.export_fails]>>
             IN  IF exporter # "none" /\ input_file \in env.export_fails
                 THEN [result |-> [pending EXCEPT !.status = "error",
                                                  !.error = Some("ExportError")],
                       export |-> export, notify |-> TRUE]
                 ELSE [result |-> [pending EXCEPT !.output = Some(output_path),
                                                  !.status = "success"],
                       export |-> export, notify |-> TRUE]

\* a loop that a failing file ends: its record is the last one
RECURSIVE batch_loop_abort(_, _, _, _, _, _, _, _)
batch_loop_abort(self, files, output_dir, fmt, callback, env, i, acc) ==
    IF i > Len(files) THEN acc
    ELSE LET step == process_file(self, files[i], output_dir, fmt, env)
             next == [results |-> Append(acc.results, step.result),
                      exports |-> acc.exports
                                  \o [k \in 1..Len(step.export) |->
                                         [index |-> i, call |-> step.export[k]]],
                      calls |-> acc.calls]
         IN  IF step.result.status = "error" THEN next
             ELSE batch_loop_abort(self, files, output_dir, fmt, callback, env, i + 1, next)

\* the for loop of process_batch: file i (1-based here) and what was collected so far
RECURSIVE batch_loop(_, _, _, _, _, _, _, _)
batch_loop(self, files, output_dir, fmt, callback, env, i, acc) ==
    IF i > Len(files) THEN acc
    ELSE LET step == process_file(self, files[i], output_dir, fmt, env)
         IN  batch_loop(self, files, output_dir, fmt, callback, env, i + 1,
                 [results |-> Append(acc.results, step.result),
                  exports |-> acc.exports
                              \o [k \in 1..Len(step.export) |-> [index |-> i, call |-> step.export[k]]],
                  calls |-> IF callback /\ step.notify
                            THEN Append(acc.calls, [current |-> i, total |-> Len(files),
                                                    result |-> step.result])
                            ELSE acc.calls])

process_batch(self, files, output_dir, fmt, callback, env) ==
    batch_loop(self, files, output_dir, fmt, callback, env, 1,
               [results |-> <<>>, exports |-> <<>>, calls |-> <<>>])

(***************************************************************************)
(* cli.py: main()                                                          *)
(* The command line is the record                                          *)
(*   usage     what argparse meets first while scanning the options:       *)
(*             "help" (-h), "bad_choice" (a --mode, --scale or --format    *)
(*             value outside its choices) or "ok"                          *)
(*   output    --output: None when the option is absent                    *)
(*   batch, input, input_dir, mode, scale, format, debug: the options      *)
(* and the disk is the record                                              *)
(*   file      what the --input path is: "missing", "dir", "unreadable"    *)
(*             (open raises), "empty" or "data"                            *)
(*   dir       what the --input-dir path is: "missing", "file" or "dir"    *)
(*   listing   the entries glob("**/*") yields under it, in its order      *)
(*   mkdir_fails, export_fails: whether creating the output directory,     *)
(*             whether the exporters, raise                                *)
(***************************************************************************)
InputPath == "a"
DirPath == "d"
OutputPath == "out"
\* names of the directory's entries, by position
DirNames == <<"a", "b", "c", "d">>
EntryKinds == {"data", "empty", "unreadable", "hidden", "subdir"}

\* parser.parse_args(): "help" and "error" leave through SystemExit (0 and 2)
parse_args(av) ==
    IF av.usage = "help" THEN "help"
    ELSE IF av.usage = "bad_choice" THEN "error"
    ELSE IF av.output = None THEN "error"     \* required=True
    ELSE "namespace"

\* a validation that leaves the directory test to the scan
validate_arguments_nodircheck(args, dk) ==
    IF args.batch
    THEN (IF args.input_dir \in {None, Some("")} THEN "exit" ELSE "pass")
    ELSE (IF args.input \in {None, Some("")} THEN "exit" ELSE "pass")

\* lines 99-116: "exit" is sys.exit(1)
validate_arguments(args, dk) ==
    IF args.batch
    THEN (IF args.input_dir \in {None, Some("")} THEN "exit"
          ELSE IF dk.dir # "dir" THEN "exit"
          ELSE "pass")
    ELSE (IF args.input \in {None, Some("")} THEN "exit" ELSE "pass")

\* validate_file: the exception it raises, "none" when it returns the path
validate_file(dk) ==
    IF dk.file = "missing" THEN "FileNotFoundError"
    ELSE IF dk.file = "dir" THEN "ValueError"
    ELSE "none"

Outcome(code, eff) ==
    [exit_code |-> code, effects |-> eff, results |-> <<>>, exports |-> <<>>,
     calls |-> <<>>, summary |-> None]

\* a single-file branch that reports the empty file and returns
main_single_emptyreturns(args, dk) ==
    IF validate_file(dk) # "none" THEN Outcome(1, <<>>)
    ELSE IF dk.file = "unreadable" THEN Outcome(1, <<"open">>)
    ELSE IF dk.file = "empty" THEN Outcome(0, <<"open">>)
    ELSE IF init_raises(args.mode, args.scale) # "none" THEN Outcome(1, <<"open">>)
    ELSE IF dk.export_fails THEN Outcome(1, <<"open", "BinaryMapper", "export">>)
    ELSE Outcome(0, <<"open", "BinaryMapper", "export", "written">>)

\* lines 120-218: the single-file branch, inside try
main_single(args, dk) ==
    IF validate_file(dk) # "none" THEN Outcome(1, <<>>)                 \* except Exception
    ELSE IF dk.file = "unreadable" THEN Outcome(1, <<"open">>)           \* open raises
    ELSE IF dk.file = "empty" THEN Outcome(1, <<"open">>)                \* sys.exit(1)
    ELSE IF init_raises(args.mode, args.scale) # "none" THEN Outcome(1, <<"open">>)
    ELSE LET exporter == args.format \in {"midi", "wav", "mp3", "spectrum"}
         IN  IF exporter /\ dk.export_fails
             THEN Outcome(1, <<"open", "BinaryMapper", "export">>)
             ELSE IF exporter
             THEN Outcome(0, <<"open", "BinaryMapper", "export", "written">>)
             ELSE Outcome(0, <<"open", "BinaryMapper">>)

\* lines 225-233: the files the scan keeps, by name, in glob order
RECURSIVE scan(_, _)
scan(listing, i) ==
    IF i > Len(listing) THEN <<>>
    ELSE IF listing[i] \in {"hidden", "subdir"} THEN scan(listing, i + 1)
    ELSE <<DirNames[i]>> \o scan(listing, i + 1)

\* the files of the directory as process_batch meets them
batch_env(dk) ==
    [fs |-> [n \in {DirNames[i] : i \in 1..Len(dk.listing)} |->
                LET i == CHOOSE k \in 1..Len(dk.listing) : DirNames[k] = n
                IN  IF dk.listing[i] \in FileKinds THEN dk.listing[i] ELSE "unreadable"],
     export_fails |-> IF dk.export_fails
                      THEN {DirNames[i] : i \in 1..Len(dk.listing)} ELSE {}]

RECURSIVE count_status(_, _, _)
count_status(cs, k, wanted) ==
    IF k = 0 THEN 0
    ELSE count_status(cs, k - 1, wanted)
         + (IF (cs[k].result.status = "success") = wanted THEN 1 ELSE 0)

\* lines 222-324: the batch branch, inside try
main_batch(args, dk) ==
    LET files == scan(dk.listing, 1)
    IN  IF files = <<>> THEN Outcome(0, <<>>)                            \* return
        ELSE IF dk.mkdir_fails THEN Outcome(1, <<>>)                     \* except Exception
        ELSE IF init_raises(args.mode, args.scale) # "none" THEN Outcome(1, <<"mkdir">>)
        ELSE LET self == [mode |-> args.mode, scale |-> args.scale]
                 out == process_batch(self, files, OutputPath, args.format, TRUE, batch_env(dk))
             IN  [exit_code |-> 0,
                  effects |-> <<"mkdir", "BinaryMapper">>
                              \o [k \in 1..Len(files) |-> "open"]
                              \o [k \in 1..Len(out.exports) |-> "export"],
                  results |-> out.results,
                  exports |-> out.exports,
                  calls |-> out.calls,
                  \* nonlocal processed, successful, failed; progress.update(completed=current)
                  summary |-> Some([total |-> Len(out.results),
                                    processed |-> Len(out.calls),
                                    successful |-> count_status(out.calls, Len(out.calls), TRUE),
                                    failed |-> count_status(out.calls, Len(out.calls), FALSE),
                                    completed |-> IF out.calls = <<>> THEN 0
                                                  ELSE out.calls[Len(out.calls)].current])]

\* lines 38-335
main(av, dk) ==
    IF parse_args(av) = "help" THEN Outcome(0, <<>>)
    ELSE IF parse_args(av) = "error" THEN Outcome(2, <<>>)
    ELSE IF validate_arguments(av, dk) = "exit" THEN Outcome(1, <<>>)
    ELSE IF ~av.batch THEN main_single(av, dk)
    ELSE main_batch(av, dk)

(***************************************************************************)
(* midi_export.py: MidiExporter.notes_to_midi                              *)
(* A message is [type, note, velocity, time]; time is the delta in ticks   *)
(* to the message before it in the track.                                  *)
(***************************************************************************)
\* 440 * 2^(s/12) Hz for s = 0..11, rounded up, in 1/3200 Hz: the frequency from
\* which 12 * log2(f / 440) reaches s (f taken to the octave of 440 Hz)
SemitoneBounds ==
    <<1408000, 1491725, 1580427, 1674404, 1773969, 1879455,
      1991213, 2109617, 2235061, 2367965, 2508771, 2657951>>

\* lines 21-22: int(69 + 12 * np.log2(freq / 440.0)), freq in 1/200 Hz, for
\* 110 Hz <= freq < 14080 Hz (k is the octave of freq above that of 440 Hz)
freq_to_midi_note(freq) ==
    LET k == CHOOSE j \in -2..4 :
                 1408000 <= freq * (2 ^ (4 - j)) /\ freq * (2 ^ (4 - j)) < 2816000
        g == freq * (2 ^ (4 - k))
        s == CHOOSE t \in 0..11 :
                 /\ g >= SemitoneBounds[t + 1]
                 /\ \A u \in (t + 1)..11 : g < SemitoneBounds[u + 1]
    IN  69 + 12 * k + s

\* int(duration * 480), duration in ms
ticks_of(duration) == (duration * 480) \div 1000

\* a loop that keeps the elapsed ticks in current_time
RECURSIVE midi_loop_accumulate(_, _, _, _)
midi_loop_accumulate(ns, k, current_time, track) ==
    IF k > Len(ns) THEN track
    ELSE LET note == freq_to_midi_note(ns[k][1])
         IN  midi_loop_accumulate(ns, k + 1, ticks_of(ns[k][2]),
                 track \o <<[type |-> "note_on", note |-> note, velocity |-> 64,
                             time |-> current_time],
                            [type |-> "note_off", note |-> note, velocity |-> 64,
                             time |-> ticks_of(ns[k][2])]>>)

\* a loop whose second message is a note_on too
RECURSIVE midi_loop_on_twice(_, _, _, _)
midi_loop_on_twice(ns, k, current_time, track) ==
    IF k > Len(ns) THEN track
    ELSE LET note == freq_to_midi_note(ns[k][1])
         IN  midi_loop_on_twice(ns, k + 1, 0,
                 track \o <<[type |-> "note_on", note |-> note, velocity |-> 64,
                             time |-> current_time],
                            [type |-> "note_on", note |-> note, velocity |-> 64,
                             time |-> ticks_of(ns[k][2])]>>)

\* lines 24-31: the for loop, note k (1-based here)
RECURSIVE midi_loop(_, _, _, _)
midi_loop(ns, k, current_time, track) ==
    IF k > Len(ns) THEN track
    ELSE LET note == freq_to_midi_note(ns[k][1])
         IN  midi_loop(ns, k + 1, 0,
                 track \o <<[type |-> "note_on", note |-> note, velocity |-> 64,
                             time |-> current_time],
                            [type |-> "note_off", note |-> note, velocity |-> 64,
                             time |-> ticks_of(ns[k][2])]>>)

notes_to_midi(ns) == midi_loop(ns, 1, 0, <<>>)

(***************************************************************************)
(* gui.py: the window and its worker threads                               *)
(* gui.input_file and gui.output_file are None until the attribute is set; *)
(* gui.alive is FALSE once the process has aborted.  A worker is the       *)
(* record of its four constructor arguments and of pc, the place run() has *)
(* reached: "started", "read" (after progress 25), "mapped" (after         *)
(* progress 50) or "finished" (after it emitted its finished message).     *)
(* self.worker is the last element of workers.  Signals cross from the     *)
(* worker's thread to the window's and are handled there in the order of   *)
(* their emission.                                                         *)
(***************************************************************************)
\* the texts the combo boxes hold when Convert is clicked
ComboModes == {"melody"}
ComboFormats == {"wav", "midi"}
\* what the save dialog returns
GuiOutputs == {"out"}

\* the workers that have not yet emitted their finished message
Running(ws) == {w \in 1..Len(ws) : ws[w].pc # "finished"}

\* lines 30-35
WorkerThread(input_file, mode, fmt, output_file) ==
    [input_file |-> input_file, mode |-> mode, output_format |-> fmt,
     output_file |-> output_file, pc |-> "started"]

progress_signal(value) == [signal |-> "progress", value |-> value]
finished_signal(kind, text) == [signal |-> "finished", value |-> <<kind, text>>]

\* lines 38-44 of run(): open, read, the empty test, progress.emit(25)
run_read(w, env) ==
    IF env.fs[w.input_file] = "unreadable"
    THEN [pc |-> "finished", emitted |-> <<finished_signal("Error", "IOError")>>]
    ELSE IF file_data(env, w.input_file) = <<>>
    THEN [pc |-> "finished", emitted |-> <<finished_signal("Error", "Input file is empty")>>]
    ELSE [pc |-> "read", emitted |-> <<progress_signal(25)>>]

\* lines 46-49: BinaryMapper(mode=self.mode), map_bytes_to_notes, progress.emit(50)
run_map(w, env) ==
    IF init_raises(w.mode, "chromatic") # "none"
    THEN [pc |-> "finished", emitted |-> <<finished_signal("Error", "ValueError")>>]
    ELSE [pc |-> "mapped", emitted |-> <<progress_signal(50)>>]

\* lines 51-69: the export, progress.emit(100), finished.emit
run_export(w, env) ==
    IF w.output_format \in Formats /\ w.input_file \in env.export_fails
    THEN [pc |-> "finished", emitted |-> <<finished_signal("Error", "ExportError")>>]
    ELSE [pc |-> "finished",
          emitted |-> <<progress_signal(100), finished_signal("Success", w.output_file)>>]

\* lines 147-164: the outcomes of one click.  Rebinding self.worker releases
\* the window's only reference to the previous WorkerThread; when that thread
\* still runs, either the QThread is destroyed with it (Qt aborts the process)
\* or the thread's own call of run() keeps it alive and it runs on.
convert(g, ws, mode, fmt) ==
    IF g.input_file = None
    THEN {[gui |-> [g EXCEPT !.log_text = Append(@, <<"Please select an input file.">>)],
           workers |-> ws]}
    ELSE IF g.output_file = None
    THEN {[gui |-> [g EXCEPT !.log_text = Append(@, <<"Please select an output file.">>)],
           workers |-> ws]}
    ELSE {[gui |-> [g EXCEPT !.progress_bar = 0],
           workers |-> Append(ws, WorkerThread(g.input_file[1], mode, fmt, g.output_file[1]))]}
         \cup (IF ws # <<>> /\ ws[Len(ws)].pc # "finished"
               THEN {[gui |-> [g EXCEPT !.progress_bar = 0, !.alive = FALSE], workers |-> ws]}
               ELSE {})

\* the slot a signal is connected to: progress_bar.setValue, on_finished (lines 166-167)
deliver(g, sig) ==
    IF sig.signal = "progress" THEN [g EXCEPT !.progress_bar = sig.value]
    ELSE [g EXCEPT !.log_text = Append(@, sig.value)]

(***************************************************************************)
(* Inputs                                                                  *)
(***************************************************************************)
\* byte strings: every start byte, a few strides (42 bytes is the period of the
\* 7-note scales: 7 pitch classes times 6 octaves), every length up to MaxDataLen
Strides == {1, 37, 42}
DataInputs ==
    {[i \in 1..n |-> (b + (i - 1) * s) % 256] : b \in Bytes, s \in Strides, n \in 0..MaxDataLen}

\* the durations the mapper produces, and a few frequencies (test_core.py uses 440 and 880 Hz)
Durations == {100, 250, 500, 750, 1000}
WaveNotes == {<<f, d>> : f \in {88000, 176000}, d \in Durations}
RECURSIVE SeqsUpTo(_, _)
SeqsUpTo(S, n) ==
    IF n = 0 THEN {<<>>}
    ELSE LET shorter == SeqsUpTo(S, n - 1)
         IN  shorter \cup {Append(q, x) : q \in {r \in shorter : Len(r) = n - 1}, x \in S}

\* test_core.py: test_generate_waveform
test_notes == <<(<<88000, 500>>), (<<176000, 500>>)>>
test_sample_rate == 44100

(***************************************************************************)
(* The command line                                                        *)
(***************************************************************************)
CliScales == {"chromatic", "blues"}

Argvs ==
    [usage : {"ok", "help", "bad_choice"},
     output : {None, Some(OutputPath)},
     batch : BOOLEAN,
     input : {None, Some(""), Some(InputPath)},
     input_dir : {None, Some(""), Some(DirPath)},
     mode : Modes,
     scale : CliScales,
     format : Formats,
     debug : BOOLEAN]

DefaultDisk ==
    [file |-> "data", dir |-> "dir", listing |-> <<>>,
     mkdir_fails |-> FALSE, export_fails |-> FALSE]

\* the disk varies where the run can look at it
Disks(av) ==
    IF parse_args(av) # "namespace" THEN {DefaultDisk}
    ELSE IF ~av.batch
    THEN IF av.input # Some(InputPath) THEN {DefaultDisk}
         ELSE {[DefaultDisk EXCEPT !.file = k, !.export_fails = x] :
                  k \in {"missing", "dir", "unreadable", "empty", "data"}, x \in BOOLEAN}
    ELSE IF av.input_dir # Some(DirPath) THEN {DefaultDisk}
         ELSE {[DefaultDisk EXCEPT !.dir = k] : k \in {"missing", "file"}}
              \cup {[DefaultDisk EXCEPT !.listing = l, !.mkdir_fails = m, !.export_fails = x] :
                       l \in SeqsUpTo(EntryKinds, MaxDirEntries), m \in BOOLEAN, x \in BOOLEAN}

\* the command-line variables while main() is not run
CliIdle ==
    /\ argv = [usage |-> "ok", output |-> None, batch |-> FALSE, input |-> None,
               input_dir |-> None, mode |-> "melody", scale |-> "chromatic",
               format |-> "wav", debug |-> FALSE]
    /\ disk = DefaultDisk
    /\ exit_code = None
    /\ effects = <<>>
    /\ summary = None

\* the track before notes_to_midi is called
MidiIdle == midi_track = <<>>

\* the window variables while no window is open
GuiIdle ==
    /\ gui = [input_file |-> None, output_file |-> None, progress_bar |-> 0,
              log_text |-> <<>>, alive |-> TRUE]
    /\ workers = <<>>
    /\ signals = <<>>

\* the batch variables while no batch runs
BatchIdle ==
    /\ fs = [f \in FileNames |-> "data"]
    /\ export_fails = {}
    /\ input_files = <<>>
    /\ output_format = "wav"
    /\ has_callback = FALSE
    /\ results = <<>>
    /\ exports = <<>>
    /\ calls = <<>>

(***************************************************************************)
(* The mapper: construct, then map                                         *)
(***************************************************************************)
InitMapper ==
    /\ pc = "start"
    /\ mapper = None
    /\ ctor_args = None
    /\ raised = "none"
    /\ data = <<>>
    /\ notes = <<>>
    /\ wf_notes = <<>>
    /\ sample_rate = test_sample_rate
    /\ waveform = <<>>
    /\ BatchIdle
    /\ CliIdle
    /\ MidiIdle
    /\ GuiIdle

\* mapper = BinaryMapper(mode=..., scale=...)
Construct ==
    /\ pc = "start"
    /\ \E mode \in ModeArgs, scale \in ScaleArgs :
          /\ ctor_args' = Some([mode |-> mode, scale |-> scale])
          /\ raised' = init_raises(mode, scale)
          /\ mapper' = IF init_raises(mode, scale) = "none"
                       THEN Some([mode |-> mode, scale |-> scale]) ELSE None
          /\ pc' = IF init_raises(mode, scale) = "none" THEN "constructed" ELSE "failed"
    /\ UNCHANGED <<data, notes, wave_vars, batch_in_vars, batch_out_vars, cli_vars, midi_vars, gui_vars>>

\* notes = mapper.map_bytes_to_notes(data)
MapBytesToNotes ==
    /\ pc = "constructed"
    /\ mapper # None
    /\ \E d \in DataInputs :
          /\ data' = d
          /\ notes' = map_bytes_to_notes(mapper[1], d)
    /\ pc' = "mapped"
    /\ UNCHANGED <<mapper, ctor_args, raised, wave_vars, batch_in_vars, batch_out_vars, cli_vars, midi_vars, gui_vars>>

NextMapper == Construct \/ MapBytesToNotes

SpecMapper == InitMapper /\ [][NextMapper]_vars

(***************************************************************************)
(* The synthesiser                                                         *)
(***************************************************************************)
InitWave ==
    /\ pc = "constructed"
    /\ mapper \in {Some([mode |-> "melody", scale |-> "chromatic"])}
    /\ ctor_args = mapper
    /\ raised = "none"
    /\ data = <<>>
    /\ notes = <<>>
    /\ \/ /\ wf_notes \in SeqsUpTo(WaveNotes, MaxNotes)
          /\ sample_rate \in 1..MaxRate
       \/ /\ wf_notes = test_notes
          /\ sample_rate = test_sample_rate
    /\ waveform = <<>>
    /\ BatchIdle
    /\ CliIdle
    /\ MidiIdle
    /\ GuiIdle

\* waveform = mapper.generate_waveform(notes, sample_rate)
GenerateWaveform ==
    /\ pc = "constructed"
    /\ waveform' = generate_waveform(wf_notes, sample_rate)
    /\ pc' = "rendered"
    /\ UNCHANGED <<mapper_vars, wf_notes, sample_rate, batch_in_vars, batch_out_vars, cli_vars, midi_vars, gui_vars>>

NextWave == GenerateWaveform

SpecWave == InitWave /\ [][NextWave]_vars

(***************************************************************************)
(* The batch driver, called on a constructed mapper                        *)
(***************************************************************************)
InitBatch ==
    /\ pc = "constructed"
    /\ mapper \in {Some([mode |-> m, scale |-> s]) : m \in Modes, s \in BatchScales}
    /\ ctor_args = mapper
    /\ raised = "none"
    /\ data = <<>>
    /\ notes = <<>>
    /\ wf_notes = <<>>
    /\ sample_rate = test_sample_rate
    /\ waveform = <<>>
    /\ fs \in [FileNames -> FileKinds]
    /\ export_fails \in SUBSET FileNames
    /\ input_files \in SeqsUpTo(FileNames, MaxFiles)
    /\ output_format \in FormatArgs
    /\ has_callback \in BOOLEAN
    /\ results = <<>>
    /\ exports = <<>>
    /\ calls = <<>>
    /\ CliIdle
    /\ MidiIdle
    /\ GuiIdle

\* results = mapper.process_batch(input_files, output_dir, output_format, progress_callback)
ProcessBatch ==
    /\ pc = "constructed"
    /\ mapper # None
    /\ LET out == process_batch(mapper[1], input_files, OutputDir, output_format, has_callback,
                                [fs |-> fs, export_fails |-> export_fails])
       IN  /\ results' = out.results
           /\ exports' = out.exports
           /\ calls' = out.calls
    /\ pc' = "batch_done"
    /\ UNCHANGED <<mapper_vars, wave_vars, batch_in_vars, cli_vars, midi_vars, gui_vars>>

NextBatch == ProcessBatch

SpecBatch == InitBatch /\ [][NextBatch]_vars

(***************************************************************************)
(* A run of the command                                                    *)
(***************************************************************************)
InitCli ==
    /\ pc = "start"
    /\ mapper = None
    /\ ctor_args = None
    /\ raised = "none"
    /\ data = <<>>
    /\ notes = <<>>
    /\ wf_notes = <<>>
    /\ sample_rate = test_sample_rate
    /\ waveform = <<>>
    /\ BatchIdle
    /\ argv \in Argvs
    /\ disk \in Disks(argv)
    /\ exit_code = None
    /\ effects = <<>>
    /\ summary = None
    /\ MidiIdle
    /\ GuiIdle

\* main(), to the exit of the process
Main ==
    /\ pc = "start"
    /\ LET out == main(argv, disk)
       IN  /\ exit_code' = Some(out.exit_code)
           /\ effects' = out.effects
           /\ results' = out.results
           /\ exports' = out.exports
           /\ calls' = out.calls
           /\ summary' = out.summary
    /\ pc' = "exited"
    /\ UNCHANGED <<mapper_vars, wave_vars, batch_in_vars, argv, disk, midi_vars, gui_vars>>

NextCli == Main

SpecCli == InitCli /\ [][NextCli]_vars

(***************************************************************************)
(* The MIDI export of mapped notes                                         *)
(***************************************************************************)
InitMidi == InitMapper

\* MidiExporter().notes_to_midi(notes, output_file)
NotesToMidi ==
    /\ pc = "mapped"
    /\ midi_track' = notes_to_midi(notes)
    /\ pc' = "exported"
    /\ UNCHANGED <<mapper_vars, wave_vars, batch_in_vars, batch_out_vars, cli_vars, gui_vars>>

NextMidi == Construct \/ MapBytesToNotes \/ NotesToMidi

SpecMidi == InitMidi /\ [][NextMidi]_vars

(***************************************************************************)
(* The window: the user's clicks, the workers' steps, the signals          *)
(***************************************************************************)
InitGui ==
    /\ pc = "start"
    /\ mapper = None
    /\ ctor_args = None
    /\ raised = "none"
    /\ data = <<>>
    /\ notes = <<>>
    /\ wf_notes = <<>>
    /\ sample_rate = test_sample_rate
    /\ waveform = <<>>
    /\ fs \in [FileNames -> FileKinds]
    /\ export_fails \in SUBSET FileNames
    /\ input_files = <<>>
    /\ output_format = "wav"
    /\ has_callback = FALSE
    /\ results = <<>>
    /\ exports = <<>>
    /\ calls = <<>>
    /\ CliIdle
    /\ MidiIdle
    /\ GuiIdle

gui_rest == <<pc, mapper_vars, wave_vars, batch_in_vars, batch_out_vars, cli_vars, midi_vars>>

\* select_file: the dialog returns a name, or "" when it is cancelled
SelectFile ==
    /\ gui.alive
    /\ \E file_name \in FileNames \cup {""} :
          gui' = IF file_name # "" THEN [gui EXCEPT !.input_file = Some(file_name)] ELSE gui
    /\ UNCHANGED <<gui_rest, workers, signals>>

SelectOutput ==
    /\ gui.alive
    /\ \E file_name \in GuiOutputs \cup {""} :
          gui' = IF file_name # "" THEN [gui EXCEPT !.output_file = Some(file_name)] ELSE gui
    /\ UNCHANGED <<gui_rest, workers, signals>>

\* a click on Convert
Convert ==
    /\ gui.alive
    /\ Len(workers) < MaxWorkers
    /\ Len(gui.log_text) < MaxLog
    /\ \E mode \in ComboModes, fmt \in ComboFormats :
          \E out \in convert(gui, workers, mode, fmt) :
              /\ gui' = out.gui
              /\ workers' = out.workers
    /\ UNCHANGED <<gui_rest, signals>>

\* the files as the workers meet them
GuiEnv == [fs |-> fs, export_fails |-> export_fails]

\* worker w has run to its next emit: out is where it stands and what it emitted
WorkerStep(w, out) ==
    /\ gui.alive
    /\ workers' = [workers EXCEPT ![w].pc = out.pc]
    /\ signals' = signals \o out.emitted
    /\ UNCHANGED <<gui_rest, gui>>

WorkerRead ==
    \E w \in 1..Len(workers) :
        workers[w].pc = "started" /\ WorkerStep(w, run_read(workers[w], GuiEnv))

WorkerMap ==
    \E w \in 1..Len(workers) :
        workers[w].pc = "read" /\ WorkerStep(w, run_map(workers[w], GuiEnv))

WorkerExport ==
    \E w \in 1..Len(workers) :
        workers[w].pc = "mapped" /\ WorkerStep(w, run_export(workers[w], GuiEnv))

\* the window's event loop handles the oldest signal
Deliver ==
    /\ gui.alive
    /\ signals # <<>>
    /\ gui' = deliver(gui, signals[1])
    /\ signals' = Tail(signals)
    /\ UNCHANGED <<gui_rest, workers>>

NextGui ==
    \/ SelectFile
    \/ SelectOutput
    \/ Convert
    \/ WorkerRead
    \/ WorkerMap
    \/ WorkerExport
    \/ Deliver

SpecGui == InitGui /\ [][NextGui]_vars

(***************************************************************************)
(* Properties of the mapper                                                *)
(***************************************************************************)
\* C1: map_bytes_to_notes returns exactly len(data) pairs, the i-th one being the
\* pair of the i-th byte alone (what the mapper returns for that byte whatever
\* its position and neighbours); the empty byte string gives the empty list.
C1_OneNotePerByte ==
    pc = "mapped" =>
        /\ Len(notes) = Len(data)
        /\ \A i \in 1..Len(data) :
              notes[i] = <<frequency_of(mapper[1], data[i]), duration_of(mapper[1], data[i])>>
        /\ \A i, j \in 1..Len(data) : data[i] = data[j] => notes[i] = notes[j]
        /\ (data = <<>> => notes = <<>>)

C1_Witness ==
    /\ pc = "mapped"
    /\ Len(data) = 2
    /\ Len(notes) = 2
    /\ data[1] # data[2]
    /\ notes[1] # notes[2]

\* C2: for every byte 0..255, every mode and every scale, the note has a
\* strictly positive frequency and a strictly positive duration.
C2_PositiveNotes ==
    pc = "mapped" =>
        \A i \in 1..Len(notes) : notes[i][1] > 0 /\ notes[i][2] > 0

C2_Witness ==
    /\ pc = "mapped"
    /\ mapper[1].mode = "rhythm"
    /\ Len(data) = 1
    /\ data[1] = 252
    /\ notes[1][2] = 250
    /\ notes[1][1] > 0

\* C3: in rhythm mode the duration is 0.25, 0.5, 0.75 or 1.0 s, chosen by
\* byte mod 4 alone; in melody mode it is 0.5 s and in spectrum mode 0.1 s.
C3_RhythmTable == <<250, 500, 750, 1000>>

C3_Durations ==
    pc = "mapped" =>
        \A i \in 1..Len(data) :
            /\ mapper[1].mode = "rhythm" => notes[i][2] = C3_RhythmTable[(data[i] % 4) + 1]
            /\ mapper[1].mode = "melody" => notes[i][2] = 500
            /\ mapper[1].mode = "spectrum" => notes[i][2] = 100

C3_Witness ==
    /\ pc = "mapped"
    /\ mapper[1].mode = "rhythm"
    /\ mapper[1].scale = "pentatonic"
    /\ data = <<3, 4>>
    /\ notes[1][2] = 1000
    /\ notes[2][2] = 250

\* C4: BinaryMapper(mode, scale) raises ValueError exactly when scale is not one
\* of the 7 keys of SCALES, whatever the mode; a mapper that exists (and so can
\* be asked to map) has a recognised scale.
C4_UnknownScaleRejected ==
    /\ Cardinality(DOMAIN SCALES) = 7
    /\ ctor_args # None =>
          /\ raised = "ValueError" <=> ctor_args[1].scale \notin DOMAIN SCALES
          /\ raised = "none" <=> ctor_args[1].scale \in DOMAIN SCALES
          /\ ctor_args[1].scale \notin DOMAIN SCALES => mapper = None /\ pc = "failed"
    /\ mapper # None => mapper[1].scale \in DOMAIN SCALES
    /\ pc = "mapped" => mapper # None /\ mapper[1].scale \in DOMAIN SCALES

C4_Witness ==
    /\ ctor_args # None
    /\ ctor_args[1].scale = "invalid_scale"
    /\ ctor_args[1].mode = "rhythm"
    /\ raised = "ValueError"
    /\ mapper = None

(***************************************************************************)
(* Properties of the synthesiser                                           *)
(***************************************************************************)
\* samples of the first k notes, each truncated on its own
RECURSIVE SamplesBefore(_, _, _)
SamplesBefore(ns, rate, k) ==
    IF k = 0 THEN 0 ELSE SamplesBefore(ns, rate, k - 1) + ((ns[k][2] * rate) \div 1000)

\* C5: the buffer is as long as the sum of the per-note truncated sample counts;
\* note k's segment starts at the sum of the counts before it, so the segments
\* are contiguous and every index is written by exactly one note; the notes
\* [(440, 0.5), (880, 0.5)] at 44100 Hz give 44100 samples.
C5_WaveformLayout ==
    pc = "rendered" =>
        /\ Len(waveform) = SamplesBefore(wf_notes, sample_rate, Len(wf_notes))
        /\ \A k \in 1..Len(wf_notes) :
              \A i \in (SamplesBefore(wf_notes, sample_rate, k - 1) + 1)
                         ..SamplesBefore(wf_notes, sample_rate, k) :
                  i \in DOMAIN waveform /\ waveform[i] = {k}
        /\ \A i \in DOMAIN waveform : Cardinality(waveform[i]) = 1
        /\ (wf_notes = test_notes /\ sample_rate = test_sample_rate
               => Len(waveform) = 44100)

C5_Witness ==
    /\ pc = "rendered"
    /\ sample_rate = 3
    /\ Len(wf_notes) = 3
    /\ wf_notes[1][2] = 500
    /\ wf_notes[2][2] = 750
    /\ wf_notes[3][2] = 500
    /\ waveform = <<{1}, {2}, {2}, {3}>>

\* the case of test_core.py
C5_TestWitness ==
    /\ pc = "rendered"
    /\ wf_notes = test_notes
    /\ sample_rate = 44100
    /\ Len(waveform) = 44100
    /\ waveform[22050] = {1}
    /\ waveform[22051] = {2}

(***************************************************************************)
(* Properties of the batch driver                                          *)
(***************************************************************************)
BatchEnv == [fs |-> fs, export_fails |-> export_fails]

\* C6: process_batch returns one record per entry of input_files, in the same
\* order, record i carrying input_files[i]; a failing file (empty, unreadable,
\* exporter exception) neither ends the loop nor changes the records of the
\* other files: each record is the one its file gets when processed alone.
C6_OneRecordPerFile ==
    pc = "batch_done" =>
        /\ Len(results) = Len(input_files)
        /\ \A i \in 1..Len(input_files) :
              /\ i \in DOMAIN results
              /\ results[i].input = input_files[i]
              /\ results[i] =
                    process_batch(mapper[1], <<input_files[i]>>, OutputDir, output_format,
                                  has_callback, BatchEnv).results[1]

C6_Witness ==
    /\ pc = "batch_done"
    /\ input_files = <<"a", "b", "a">>
    /\ fs["a"] = "data"
    /\ "a" \in export_fails
    /\ fs["b"] = "unreadable"
    /\ output_format = "mp3"
    /\ Len(results) = 3
    /\ \A i \in 1..3 : results[i].status = "error"

\* C7: an empty input file gets the record (status error, output None, error
\* "File is empty"), no exporter is invoked for it, and every file after it is
\* still processed.
C7_EmptyFile ==
    pc = "batch_done" =>
        \A i \in 1..Len(input_files) :
            fs[input_files[i]] = "empty" =>
                /\ i \in DOMAIN results
                /\ results[i] = [input |-> input_files[i], output |-> None,
                                 status |-> "error", error |-> Some("File is empty")]
                /\ \A e \in 1..Len(exports) : exports[e].index # i
                /\ \A j \in (i + 1)..Len(input_files) :
                      /\ j \in DOMAIN results
                      /\ results[j].input = input_files[j]
                      /\ results[j].status \in {"success", "error"}
                      /\ (fs[input_files[j]] = "data" /\ output_format \in Formats
                             => \E e \in 1..Len(exports) : exports[e].index = j)

C7_Witness ==
    /\ pc = "batch_done"
    /\ Len(input_files) = 2
    /\ input_files[1] = "a"
    /\ input_files[2] = "b"
    /\ fs["a"] = "empty"
    /\ fs["b"] = "data"
    /\ output_format = "wav"
    /\ results[1].status = "error"
    /\ results[1].error = Some("File is empty")
    /\ results[2].status = "success"
    /\ Len(exports) = 1
    /\ exports[1].index = 2

\* C8: every returned record has status success or error, never pending;
\* output is a path exactly when the status is success, and error is a
\* message exactly when the status is error.
C8_RecordShape ==
    pc = "batch_done" =>
        \A i \in 1..Len(results) :
            /\ results[i].status \in {"success", "error"}
            /\ results[i].output # None <=> results[i].status = "success"
            /\ results[i].error # None <=> results[i].status = "error"

C8_Witness ==
    /\ pc = "batch_done"
    /\ Len(results) = 2
    /\ fs = [f \in FileNames |-> "data"]
    /\ export_fails = {"b"}
    /\ output_format = "midi"
    /\ results[1] = [input |-> "a", output |-> Some(<<OutputDir, "a", "midi">>),
                     status |-> "success", error |-> None]
    /\ results[2] = [input |-> "b", output |-> None,
                     status |-> "error", error |-> Some("ExportError")]

(***************************************************************************)
(* Properties of the command line                                          *)
(***************************************************************************)
\* the argument parser stops the run with a usage error
CliParserRejects ==
    \/ argv.usage = "bad_choice"
    \/ argv.usage = "ok" /\ argv.output = None

\* the argument parser hands main() a namespace
CliAccepted == argv.usage = "ok" /\ argv.output # None

\* --batch without a usable --input-dir, or no --batch and no --input
CliMissingInputOption ==
    \/ argv.batch /\ (argv.input_dir \in {None, Some("")} \/ disk.dir # "dir")
    \/ ~argv.batch /\ argv.input \in {None, Some("")}

CliRunsSingle == CliAccepted /\ ~argv.batch /\ argv.input = Some(InputPath)
CliRunsBatch ==
    CliAccepted /\ argv.batch /\ argv.input_dir = Some(DirPath) /\ disk.dir = "dir"

\* the input file is missing or is no regular file
CliInputMissing == CliRunsSingle /\ disk.file \in {"missing", "dir"}
CliInputEmpty == CliRunsSingle /\ disk.file = "empty"
\* an exception is raised while the run processes its input
CliProcessingRaises ==
    \/ CliRunsSingle /\ disk.file = "unreadable"
    \/ CliRunsSingle /\ disk.file = "data" /\ disk.export_fails
    \/ /\ CliRunsBatch
       /\ disk.mkdir_fails
       /\ \E i \in 1..Len(disk.listing) : disk.listing[i] \in {"data", "empty", "unreadable"}

\* C9 as stated: exit code 1 on every argument-validation failure, on a missing
\* or empty input file and on any exception raised during processing; exit
\* code 0 in every other run.
C9_ExitCodesAsStated ==
    pc = "exited" =>
        exit_code = Some(IF \/ argv.usage # "help" /\ CliParserRejects
                            \/ CliAccepted /\ CliMissingInputOption
                            \/ CliInputMissing
                            \/ CliInputEmpty
                            \/ CliProcessingRaises
                         THEN 1 ELSE 0)

\* C9, amended: a command line the argument parser rejects (no --output, a
\* value outside the choices) exits 2; otherwise the exit code is 1 on a failure
\* of main()'s own argument validation, on a missing or empty input file and on
\* any exception raised during processing, and 0 in every other run (-h, a
\* directory without files, a batch with error records).
C9_ExitCodes ==
    pc = "exited" =>
        exit_code = Some(IF argv.usage = "help" THEN 0
                         ELSE IF CliParserRejects THEN 2
                         ELSE IF \/ CliMissingInputOption
                                 \/ CliInputMissing
                                 \/ CliInputEmpty
                                 \/ CliProcessingRaises
                         THEN 1 ELSE 0)

\* a batch whose files all fail still exits 0
C9_Witness ==
    /\ pc = "exited"
    /\ CliRunsBatch
    /\ disk.listing = <<"empty", "unreadable">>
    /\ ~disk.mkdir_fails
    /\ Len(results) = 2
    /\ \A i \in 1..2 : results[i].status = "error"
    /\ exit_code = Some(0)

\* C10 as stated: --batch without --input-dir (or with one that is no
\* directory) exits 1, and a run without --batch and without --input exits 1,
\* whatever the other options; nothing is read, constructed or written before.
C10_RequiredInputAsStated ==
    pc = "exited" /\ CliMissingInputOption =>
        /\ exit_code = Some(1)
        /\ effects = <<>>

\* C10, amended: on every command line the argument parser accepts (--output
\* given, every choice valid, no -h), --batch without --input-dir (or with one
\* that is no directory) exits 1 and a run without --batch and without --input
\* exits 1, whatever the other options; on those runs, and on the runs the
\* parser ends itself, no input file is read, no mapper constructed and no
\* output written.
C10_RequiredInput ==
    pc = "exited" =>
        /\ CliAccepted /\ CliMissingInputOption =>
              /\ exit_code = Some(1)
              /\ effects = <<>>
              /\ results = <<>>
              /\ exports = <<>>
              /\ summary = None
        /\ ~CliAccepted => exit_code \in {Some(0), Some(2)} /\ effects = <<>>

C10_Witness ==
    /\ pc = "exited"
    /\ CliAccepted
    /\ argv.batch
    /\ argv.input_dir = Some(DirPath)
    /\ disk.dir = "file"
    /\ argv.input = Some(InputPath)
    /\ argv.format = "midi"
    /\ argv.debug
    /\ exit_code = Some(1)
    /\ effects = <<>>

(***************************************************************************)
(* Properties of the MIDI export                                           *)
(***************************************************************************)
\* C11: for n notes the track holds exactly 2n messages in note order: for
\* each note a note_on with time 0, then a note_off for the same note number
\* with time int(duration * 480); every note_on carries time 0, the first
\* included, so no elapsed time is carried from one note to the next.
C11_MidiMessages ==
    pc = "exported" =>
        /\ Len(midi_track) = 2 * Len(notes)
        /\ \A i \in 1..Len(notes) :
              /\ midi_track[2 * i - 1].type = "note_on"
              /\ midi_track[2 * i - 1].time = 0
              /\ midi_track[2 * i].type = "note_off"
              /\ midi_track[2 * i].note = midi_track[2 * i - 1].note
              /\ midi_track[2 * i].time = (notes[i][2] * 480) \div 1000
              /\ \A j \in 1..Len(notes) :
                    notes[i][1] = notes[j][1]
                        => midi_track[2 * i - 1].note = midi_track[2 * j - 1].note

C11_Witness ==
    /\ pc = "exported"
    /\ mapper[1].mode = "rhythm"
    /\ data = <<3, 4>>
    /\ Len(midi_track) = 4
    /\ midi_track[1].time = 0
    /\ midi_track[2].time = 480
    /\ midi_track[3].time = 0
    /\ midi_track[4].time = 120

\* tick of message j: the sum of the deltas up to it
RECURSIVE MidiTick(_, _)
MidiTick(track, j) == IF j = 0 THEN 0 ELSE MidiTick(track, j - 1) + track[j].time

\* the note switched on by message i still sounds when message j arrives
MidiSounding(track, i, j) ==
    /\ i < j
    /\ track[i].type = "note_on"
    /\ ~\E m \in (i + 1)..(j - 1) :
          track[m].type = "note_off" /\ track[m].note = track[i].note

\* C12 as stated: with two or more notes, some note_on arrives while an
\* earlier note has not yet received its note_off.
C12_NotesOverlapAsStated ==
    pc = "exported" /\ Len(notes) >= 2 =>
        \E j \in 1..Len(midi_track) :
            /\ midi_track[j].type = "note_on"
            /\ \E i \in 1..(j - 1) : MidiSounding(midi_track, i, j)

\* C12, amended: the times being deltas, the notes are sequenced and never
\* overlap: no note_on arrives while an earlier note still sounds, and note k
\* starts at the tick at which note k-1 ends, the sum of the ticks of the notes
\* before it.
C12_NotesSequenced ==
    pc = "exported" =>
        /\ \A j \in 1..Len(midi_track) :
              midi_track[j].type = "note_on"
                  => ~\E i \in 1..(j - 1) : MidiSounding(midi_track, i, j)
        /\ \A k \in 1..Len(notes) :
              /\ 2 * k \in DOMAIN midi_track
              /\ MidiTick(midi_track, 2 * k - 1) = MidiTick(midi_track, 2 * (k - 1))
              /\ MidiTick(midi_track, 2 * k)
                    = MidiTick(midi_track, 2 * k - 1) + (notes[k][2] * 480) \div 1000
              /\ MidiTick(midi_track, 2 * k) > MidiTick(midi_track, 2 * k - 1)

C12_Witness ==
    /\ pc = "exported"
    /\ mapper[1].mode = "melody"
    /\ Len(notes) = 2
    /\ Len(midi_track) = 4
    /\ midi_track[2].type = "note_off"
    /\ midi_track[3].type = "note_on"
    /\ MidiTick(midi_track, 2) = 240
    /\ MidiTick(midi_track, 3) = 240
    /\ MidiTick(midi_track, 4) = 480

\* pitch class and octave the mapper gives a byte
PitchClassOf(scale, byte) == SCALES[scale][(byte % Len(SCALES[scale])) + 1]
OctaveOf(scale, byte) == 3 + ((byte \div Len(SCALES[scale])) % 6)

\* C15: for every note the mapper produces (pitch class p, octave o) the
\* exporter's note number is the nearest MIDI note number, 12 * (o + 1) + p,
\* and lies in 0..127.
C15_NearestMidiNote ==
    pc = "exported" =>
        \A i \in 1..Len(data) :
            /\ midi_track[2 * i - 1].note
                  = 12 * (OctaveOf(mapper[1].scale, data[i]) + 1)
                    + PitchClassOf(mapper[1].scale, data[i])
            /\ midi_track[2 * i - 1].note \in 0..127

C16_CallbackPerFile ==
    pc = "batch_done" /\ has_callback =>
        /\ Len(calls) = Len(input_files)
        /\ \A i \in 1..Len(calls) :
              /\ calls[i].current = i
              /\ calls[i].total = Len(input_files)
              /\ i \in DOMAIN results
              /\ calls[i].result = results[i]

\* the records of a given status
RecordsWith(status) == Cardinality({i \in 1..Len(results) : results[i].status = status})

\* C17: at the end of a batch run of the command, successful + failed is the
\* number of records ('Total Files'), successful is the number of 'success'
\* records, failed the number of 'error' records, and the progress bar's
\* completed count is the number of input files.
C17_SummaryCounters ==
    pc = "exited" /\ summary # None =>
        /\ summary[1].successful + summary[1].failed = summary[1].total
        /\ summary[1].total = Len(results)
        /\ summary[1].successful = RecordsWith("success")
        /\ summary[1].failed = RecordsWith("error")
        /\ summary[1].completed = Len(scan(disk.listing, 1))

\* C18: whatever the output_format, a record has status 'success' only if an
\* exporter was invoked for that file and returned without raising, so an
\* unrecognised output_format never yields a 'success' record.
C18_SuccessMeansExported ==
    pc = "batch_done" =>
        /\ \A i \in 1..Len(results) :
              results[i].status = "success"
                  => \E k \in 1..Len(exports) :
                         /\ exports[k].index = i
                         /\ exports[k].call.path = results[i].output[1]
                         /\ ~exports[k].call.raised
        /\ output_format \notin Formats
              => \A i \in 1..Len(results) : results[i].status # "success"

(***************************************************************************)
(* The window's workers                                                    *)
(***************************************************************************)
\* C13: conversions never overlap: across any sequence of Convert clicks at
\* most one WorkerThread is running its pipeline at any time (no worker is
\* started while an earlier one has not yet emitted its finished message).
C13_NoOverlap == Cardinality(Running(workers)) <= 1

====
